---- MODULE Spec2Model ----
(***************************************************************************)
(* Model of controller.py, the renderer module of the radar display.       *)
(*                                                                         *)
(* The module is single threaded: every renderer is one synchronous call   *)
(* that computes its geometry and issues its primitives on the frame.  A   *)
(* state of the model is the screen geometry set by init() together with   *)
(* the record of the renderer call that ran last: its name (op), its       *)
(* arguments (args), the values of the locals it computed (out), the       *)
(* primitives it issued in order (image) and the exception it raised, if   *)
(* any (error).  The one object that outlives a call besides the frame is  *)
(* the label mask of the compass (mask): the set of labels whose pixels    *)
(* it holds.                                                               *)
(*                                                                         *)
(* Python's true division is modelled by exact rationals <<n, d>>, d > 0.  *)
(* The widths draw.textlength() returns come from the font rasteriser and  *)
(* are inputs of the call that measures them.                              *)
(***************************************************************************)
EXTENDS Integers, Sequences, FiniteSets, TLC

VARIABLES sizex, sizey, zerox, zeroy, ah_zerox, ah_zeroy, max_pixel,
          mask, op, args, out, image, error

geometry == <<sizex, sizey, zerox, zeroy, ah_zerox, ah_zeroy, max_pixel>>
vars == <<sizex, sizey, zerox, zeroy, ah_zerox, ah_zeroy, max_pixel,
          mask, op, args, out, image, error>>

----------------------------------------------------------------------------
(* global constants, controller.py 42-50 and 79 *)
VERYLARGE == 43
LARGE == 25
MEDIUM == 23
SMALL == 21
VERYSMALL == 18
AIRCRAFT_SIZE == 4
MINIMAL_CIRCLE == 18
MAXIMAL_CIRCLE == 100
space == 3

(* bounds of the model *)
MaxData == 2        \* longest sample list handed to graph
MaxWidth == 2       \* number of text widths the rasteriser may report

None == "None"      \* Python's None
NoError == "none"   \* the call returned normally
ZeroDivisionError == "ZeroDivisionError"

----------------------------------------------------------------------------
(* Exact rational arithmetic for Python's "/" on numbers. *)
Abs(n) == IF n < 0 THEN -n ELSE n

RECURSIVE Gcd(_, _)
Gcd(a, b) == IF b = 0 THEN a ELSE Gcd(b, a % b)

Norm(n, d) ==
    LET s == IF d < 0 THEN -1 ELSE 1
        g == Gcd(Abs(n), Abs(d))
    IN  <<(s * n) \div g, (s * d) \div g>>

Q(n) == <<n, 1>>
QAdd(a, b) == Norm(a[1] * b[2] + b[1] * a[2], a[2] * b[2])
QSub(a, b) == Norm(a[1] * b[2] - b[1] * a[2], a[2] * b[2])
QMul(a, b) == Norm(a[1] * b[1], a[2] * b[2])
QDiv(a, b) == Norm(a[1] * b[2], a[2] * b[1])      \* b # 0
QLt(a, b) == a[1] * b[2] < b[1] * a[2]
QLe(a, b) == a[1] * b[2] <= b[1] * a[2]
QFloor(a) == a[1] \div a[2]                        \* math.floor

(* One primitive issued on the frame: the draw call and what it draws. *)
Prim(kind, tag) == [kind |-> kind, tag |-> tag]

(* Widths draw.textlength() may report for a label, in pixels. *)
TextWidth(k) == 30 + 15 * k
TextWidths == {TextWidth(k) : k \in 0..MaxWidth}

----------------------------------------------------------------------------
(* init(): the geometry of the device, controller.py 118-124.  The panel  *)
(* is 240 high and 240 or 320 wide.                                        *)
DeviceSizes == {<<240, 240>>, <<320, 240>>}

Init ==
    \E dev \in DeviceSizes :
        /\ sizex = dev[1]
        /\ sizey = dev[2]
        /\ zerox = dev[1] \div 2
        /\ zeroy = dev[2] \div 2
        /\ max_pixel = dev[2]
        /\ mask = {}
        /\ ah_zeroy = dev[2] \div 2
        /\ ah_zerox = dev[1] \div 2
        /\ op = "init"
        /\ args = << >>
        /\ out = << >>
        /\ image = << >>
        /\ error = NoError

----------------------------------------------------------------------------
(* bar(), controller.py 661-691 *)
bar_start == 60
bar_end == 240

BarColor(val, yellow, red) ==
    IF red = 0 THEN "DimGray"
    ELSE IF val >= red THEN "red"
    ELSE IF val >= yellow THEN "DarkOrange"
    ELSE "green"

BarFloor(val, minval) == IF val < minval THEN minval ELSE val

BarXval(val, max_val) ==
    IF max_val # 0
    THEN QAdd(Q(bar_start), QDiv(Q((bar_end - bar_start) * val), Q(max_val)))
    ELSE Q(bar_start)

(* the slip of choosing the colour after the floor has been applied *)
BarOutColourAfterFloor(a) ==
    LET val   == BarFloor(a.val, a.minval)
        color == BarColor(val, a.yellow, a.red)
        xval  == BarXval(val, a.max_val)
    IN  [color |-> color, val |-> val, xval |-> xval,
         fill |-> <<Q(bar_start), Q(a.y), xval, Q(a.y + VERYSMALL)>>,
         ret |-> a.y + VERYSMALL + 5]

BarOut(a) ==
    LET color == BarColor(a.val, a.yellow, a.red)
        val   == BarFloor(a.val, a.minval)
        xval  == BarXval(val, a.max_val)
    IN  [color |-> color, val |-> val, xval |-> xval,
         fill |-> <<Q(bar_start), Q(a.y), xval, Q(a.y + VERYSMALL)>>,
         ret |-> a.y + VERYSMALL + 5]

BarPrims == <<Prim("text", "text"), Prim("text", "right_val"),
              Prim("rounded_rectangle", "frame"), Prim("rectangle", "fill"),
              Prim("text", "value")>>

BarVals == {-5, 0, 1, 49, 50, 79, 80, 100, 150}
BarMax == {0, 100}
BarThresholds == {<<0, 0>>, <<50, 0>>, <<50, 80>>, <<50, 50>>, <<1, 80>>}
BarMinvals == {0, 1}

bar ==
    \E val \in BarVals, max_val \in BarMax, thr \in BarThresholds,
       minval \in BarMinvals :
        LET a == [y |-> SMALL + 8, val |-> val, max_val |-> max_val,
                  yellow |-> thr[1], red |-> thr[2], minval |-> minval]
        IN  /\ op' = "bar"
            /\ args' = a
            /\ out' = BarOut(a)
            /\ image' = BarPrims
            /\ error' = NoError
            /\ UNCHANGED <<geometry, mask>>

----------------------------------------------------------------------------
(* graph(), controller.py 795-857 *)

(* The plot box after the room for the axis texts is taken off, 796-802. *)
GraphBox(a) ==
    [xpos  |-> a.xpos + a.ts + space,
     xsize |-> a.xsize - a.ts - space,
     ypos  |-> a.ypos + VERYSMALL \div 2,
     ysize |-> a.ysize - VERYSMALL]

(* y of one sample before the range checks, line 839. *)
GraphY(b, a, d) ==
    QSub(Q(b.ypos - 1 + b.ysize),
         QDiv(Q(b.ysize * (d - a.minvalue)), Q(a.maxvalue - a.minvalue)))

(* One pass of the loop body, lines 839-849: st carries x, lastpoint and   *)
(* the segments drawn so far.                                              *)
GraphStep(b, a, i, st) ==
    LET y0 == GraphY(b, a, a.data[i + 1])
        y  == IF QLt(y0, Q(b.ypos)) THEN Q(b.ypos) ELSE y0
        x1 == IF QLt(Q(b.ypos + b.ysize - 1), y)
              THEN Q(b.ypos + b.ysize - 1) ELSE st.x
        x  == IF i >= 1
              THEN QAdd(Q(b.xpos), QDiv(Q(i * b.xsize), Q(Len(a.data) - 1)))
              ELSE Q(b.xpos)
    IN  [x |-> x,
         lastpoint |-> <<x, y>>,
         lines |-> IF i >= 1 THEN Append(st.lines, <<st.lastpoint, <<x, y>>>>)
                   ELSE st.lines,
         seen |-> IF i >= 1 THEN Append(st.seen, <<i - 1, i>>) ELSE st.seen,
         xdead |-> x1]

RECURSIVE GraphLoop(_, _, _, _)
GraphLoop(b, a, i, st) ==
    IF i >= Len(a.data) THEN st
    ELSE GraphLoop(b, a, i + 1, GraphStep(b, a, i, st))

(* The time marks below the x axis, lines 823-836. *)
GraphTimes(b, a) ==
    LET no_of_time == QFloor(QDiv(QDiv(Q(b.xsize), Q(a.tts)), Q(2))) + 1
        offset     == (b.xsize - 1) \div no_of_time
    IN  [no_of_time |-> no_of_time, offset |-> offset,
         ticks |-> [i \in 1..(no_of_time + 1) |-> b.xpos + (i - 1) * offset],
         x |-> b.xpos + (no_of_time + 1) * offset]

GraphOut(a) ==
    LET b  == GraphBox(a)
        t  == GraphTimes(b, a)
        st == GraphLoop(b, a, 0, [x |-> Q(t.x), lastpoint |-> None,
                                  lines |-> << >>, seen |-> << >>,
                                  xdead |-> Q(t.x)])
    IN  [xpos |-> b.xpos, xsize |-> b.xsize, ypos |-> b.ypos, ysize |-> b.ysize,
         no_of_time |-> t.no_of_time, offset |-> t.offset, ticks |-> t.ticks,
         lines |-> st.lines, seen |-> st.seen, lastpoint |-> st.lastpoint]

RECURSIVE Repeat(_, _)
Repeat(p, n) == IF n <= 0 THEN << >> ELSE <<p>> \o Repeat(p, n - 1)

GraphPrims(a) ==
    LET o == GraphOut(a)
    IN  <<Prim("text", "minvalue"), Prim("text", "value_line1"),
          Prim("text", "value_line2"), Prim("text", "maxvalue"),
          Prim("rectangle", "box")>>
        \o Repeat(Prim("line", "time"), o.no_of_time + 1)
        \o Repeat(Prim("line", "data"), Len(o.lines))
        \o <<Prim("line", "value_line1"), Prim("line", "value_line2")>>

Samples == {-10, 0, 120, 130}
GraphRanges == {<<0, 120>>, <<0, 0>>}

RECURSIVE SeqsUpTo(_, _)
SeqsUpTo(S, n) ==
    IF n = 0 THEN {<< >>}
    ELSE LET shorter == SeqsUpTo(S, n - 1)
         IN  shorter \cup {Append(s, e) : s \in shorter, e \in S}

(* The arguments of a call: the box cowarner() passes (line 869), or       *)
(* another width; ts is the measured width of the text of maxvalue, tts    *)
(* the measured width of a time label.                                     *)
GraphArgs(data, r, ts, tts, xsize) ==
    [xpos |-> 0, ypos |-> SMALL + 5, xsize |-> xsize,
     ysize |-> sizey - 55, data |-> data,
     minvalue |-> r[1], maxvalue |-> r[2],
     value_line1 |-> 50, value_line2 |-> 100,
     ts |-> ts, tts |-> tts]

(* the plot widths handed to graph: the one of cowarner and two narrow ones *)
GraphWidths == {sizex - 12, 153, 93}

(* every sample list in the box of cowarner, and every width with one list *)
GraphCalls ==
    {GraphArgs(data, r, TextWidth(0), TextWidth(MaxWidth), sizex - 12) :
        data \in SeqsUpTo(Samples, MaxData), r \in GraphRanges}
    \cup {GraphArgs(<<0, 120>>, <<0, 120>>, ts, tts, xsize) :
            ts \in TextWidths, tts \in TextWidths, xsize \in GraphWidths}

graph ==
    \E a \in GraphCalls :
        LET \* line 808 is the first to divide by maxvalue - minvalue
            fails == a.maxvalue - a.minvalue = 0
        IN  /\ op' = "graph"
            /\ args' = a
            /\ out' = IF fails THEN << >> ELSE GraphOut(a)
            /\ image' = IF fails THEN <<Prim("text", "minvalue")>>
                      ELSE GraphPrims(a)
            /\ error' = IF fails THEN ZeroDivisionError ELSE NoError
            /\ UNCHANGED <<geometry, mask>>

SpecPanel == Init /\ [][bar \/ graph]_vars

----------------------------------------------------------------------------
(* posn(), controller.py 83-86, for the angles that are multiples of 30    *)
(* degrees.  The cosine of 30k degrees is (r + s*sqrt(3))/2 with the pair  *)
(* <<r, s>> below; the sine of an angle is the cosine of the angle - 90.   *)
Cos30 == <<<<2, 0>>, <<0, 1>>, <<1, 0>>, <<0, 0>>, <<-1, 0>>, <<0, -1>>,
           <<-2, 0>>, <<0, -1>>, <<-1, 0>>, <<0, 0>>, <<1, 0>>, <<0, 1>>>>

(* round(n * sqrt(3) / 2) for n >= 0: the m with (2m-1)^2 < 3n^2 < (2m+1)^2 *)
RoundSqrt3Half(n) ==
    IF n = 0 THEN 0
    ELSE CHOOSE m \in 0..n : /\ (2 * m - 1) * (2 * m - 1) < 3 * n * n
                             /\ 3 * n * n < (2 * m + 1) * (2 * m + 1)

(* round(n / 2), a tie going to the even neighbour as Python's round does *)
RoundHalf(n) ==
    IF n % 2 = 0 THEN n \div 2
    ELSE IF ((n - 1) \div 2) % 2 = 0 THEN (n - 1) \div 2 ELSE (n + 1) \div 2

RoundCos(k, arm_length) ==
    LET c == Cos30[(k % 12) + 1]
    IN  IF c[2] = 0 THEN RoundHalf(c[1] * arm_length)
        ELSE c[2] * RoundSqrt3Half(arm_length)

posn(angle, arm_length) ==
    <<RoundCos(angle \div 30, arm_length),
      RoundCos(angle \div 30 - 3, arm_length)>>

(* int(): truncation towards zero *)
QInt(a) == IF a[1] >= 0 THEN a[1] \div a[2] ELSE -((-a[1]) \div a[2])

----------------------------------------------------------------------------
(* aircraft(), controller.py 194-223 *)
AircraftOut(a) ==
    LET x  == QDiv(Q(9 * a.x), Q(10))
        y  == QDiv(Q(9 * a.y), Q(10))
        p1 == posn(270 + a.direction, 2 * AIRCRAFT_SIZE)
        p2 == posn(270 + a.direction + 150, 4 * AIRCRAFT_SIZE)
        p3 == posn(270 + a.direction + 180, 2 * AIRCRAFT_SIZE)
        p4 == posn(270 + a.direction + 210, 4 * AIRCRAFT_SIZE)
        p5 == posn(270 + a.direction, a.nspeed_length)
        flip == QLt(Q(sizex),
                    QAdd(QAdd(Q(a.tsize), x), Q(4 * AIRCRAFT_SIZE - 2)))
        ty == QInt(QSub(y, QDiv(Q(LARGE), Q(2))))
        tposition ==
            IF flip
            THEN <<QSub(QSub(x, Q(4 * AIRCRAFT_SIZE)), Q(a.tsize)), Q(ty)>>
            ELSE <<QAdd(x, Q(4 * AIRCRAFT_SIZE + 1)), Q(ty)>>
    IN  [x |-> x, y |-> y,
         polygon |-> <<p1, p2, p3, p4>>, speedline |-> <<p1, p5>>,
         tsize |-> a.tsize, flip |-> flip, tposition |-> tposition,
         rectangle |-> <<tposition[1], tposition[2],
                         QAdd(tposition[1], Q(a.tsize)),
                         QAdd(tposition[2], Q(LARGE))>>]

(* the slip of clearing the label box after the text is drawn *)
AircraftPrimsTextFirst(a) ==
    <<Prim("polygon", "aircraft"), Prim("line", "speed"),
      Prim("text", "label"), Prim("rectangle", "label")>>
    \o (IF a.tail # None THEN <<Prim("text", "tail")>> ELSE << >>)

AircraftPrims(a) ==
    <<Prim("polygon", "aircraft"), Prim("line", "speed"),
      Prim("rectangle", "label"), Prim("text", "label")>>
    \o (IF a.tail # None THEN <<Prim("text", "tail")>> ELSE << >>)

AircraftXs == {0, 100, 200, 210, 250, 300}
Directions == {30, 240}
Tails == {None, "D-EABC"}

aircraft ==
    \E x \in AircraftXs, direction \in Directions, tsize \in TextWidths,
       tail \in Tails :
        LET a == [x |-> x, y |-> 120, direction |-> direction,
                  height |-> 12, vspeed |-> -1, nspeed_length |-> 10,
                  tail |-> tail, tsize |-> tsize]
        IN  /\ op' = "aircraft"
            /\ args' = a
            /\ out' = AircraftOut(a)
            /\ image' = AircraftPrims(a)
            /\ error' = NoError
            /\ UNCHANGED <<geometry, mask>>

----------------------------------------------------------------------------
(* modesaircraft(), controller.py 226-252 *)
(* the slip of saturating at the lower end only *)
ModesRadiusMinOnly(radius) ==
    IF radius < MINIMAL_CIRCLE THEN MINIMAL_CIRCLE ELSE radius

ModesRadius(radius) ==
    LET r1 == IF radius < MINIMAL_CIRCLE THEN MINIMAL_CIRCLE ELSE radius
    IN  IF r1 > MAXIMAL_CIRCLE THEN MAXIMAL_CIRCLE ELSE r1

ModesOut(a) ==
    LET radius  == ModesRadius(a.radius)
        arctext == posn(a.arcposition, radius)
        tposition ==
            <<QSub(Q(zerox + arctext[1]), QDiv(Q(a.tsize), Q(2))),
              QSub(Q(zeroy + arctext[2]), QDiv(Q(LARGE), Q(2)))>>
    IN  [radius |-> radius,
         ellipse |-> <<zerox - radius, zeroy - radius,
                       zerox + radius, zeroy + radius>>,
         arm_length |-> radius, arctext |-> arctext,
         tsize |-> a.tsize, tposition |-> tposition,
         rectangle |-> <<tposition[1], tposition[2],
                         QAdd(tposition[1], Q(a.tsize)),
                         QAdd(tposition[2], Q(LARGE))>>]

ModesPrims(a) ==
    <<Prim("ellipse", "ring"), Prim("rectangle", "label"),
      Prim("text", "label")>>
    \o (IF a.tail # None
        THEN <<Prim("rectangle", "tail"), Prim("text", "tail")>> ELSE << >>)

MaxRadius == 101    \* largest radius handed to modesaircraft
Radii == {-3, 0, 5, 17, 18, 19, 60, 99, 100} \cup (101..MaxRadius)
ArcPositions == {90, 210}

modesaircraft ==
    \E radius \in Radii, arcposition \in ArcPositions, tsize \in TextWidths,
       tail \in Tails :
        LET a == [radius |-> radius, height |-> -5,
                  arcposition |-> arcposition, vspeed |-> 1,
                  tail |-> tail, tsize |-> tsize]
        IN  /\ op' = "modesaircraft"
            /\ args' = a
            /\ out' = ModesOut(a)
            /\ image' = ModesPrims(a)
            /\ error' = NoError
            /\ UNCHANGED <<geometry, mask>>

SpecRadar == Init /\ [][aircraft \/ modesaircraft]_vars

----------------------------------------------------------------------------
(* meter(), controller.py 348-404.  A gauge g has the fields of the call:  *)
(* start_value, end_value, from_degree, to_degree, marks_distance and      *)
(* small_marks_distance, all rationals.                                    *)

(* line 360; the caller of this operator has excluded end = start *)
DegPerValue(g) ==
    QDiv(QSub(g.to_degree, g.from_degree), QSub(g.end_value, g.start_value))

(* lines 368, 376 and 392 *)
MeterAngle(deg_per_value, g, m) ==
    QAdd(QMul(deg_per_value, QSub(m, g.start_value)), g.from_degree)

(* the slip of a tick loop that stops before end_value: while m < end_value *)
RECURSIVE MeterMarksExclusive(_, _, _)
MeterMarksExclusive(m, end_value, step) ==
    IF QLt(m, end_value)
    THEN <<m>> \o MeterMarksExclusive(QAdd(m, step), end_value, step)
    ELSE << >>

(* The values a tick loop visits, lines 366-371 and 374-386:               *)
(*   m = start_value; while m <= end_value: ...; m += step                 *)
RECURSIVE MeterMarks(_, _, _)
MeterMarks(m, end_value, step) ==
    IF QLe(m, end_value)
    THEN <<m>> \o MeterMarks(QAdd(m, step), end_value, step)
    ELSE << >>

(* the slip of normalising the needle value at the upper end only *)
MeterCurrentMaxOnly(g, current) ==
    IF QLt(g.end_value, current) THEN g.end_value ELSE current

(* lines 388-391 *)
MeterCurrent(g, current) ==
    IF QLt(g.end_value, current) THEN g.end_value
    ELSE IF QLt(current, g.start_value) THEN g.start_value
    ELSE current

MeterOut(g, current) ==
    LET small == MeterMarks(g.start_value, g.end_value, g.small_marks_distance)
        big   == MeterMarks(g.start_value, g.end_value, g.marks_distance)
        cur   == MeterCurrent(g, current)
        dpv   == DegPerValue(g)
    IN  [deg_per_value |-> dpv,
         small_marks |-> [k \in 1..Len(small) |->
                            [m |-> small[k],
                             angle |-> MeterAngle(dpv, g, small[k])]],
         marks |-> [k \in 1..Len(big) |->
                            [m |-> big[k],
                             angle |-> MeterAngle(dpv, g, big[k])]],
         current |-> cur,
         angle |-> MeterAngle(dpv, g, cur)]

MeterPrims(o, middle_text1, middle_text2) ==
    LET mark == <<Prim("line", "mark"), Prim("text", "marktext")>>
        RECURSIVE Marks(_)
        Marks(n) == IF n = 0 THEN << >> ELSE mark \o Marks(n - 1)
    IN  <<Prim("arc", "scale")>>
        \o Repeat(Prim("line", "small_mark"), Len(o.small_marks))
        \o Marks(Len(o.marks))
        \o <<Prim("line", "arrow"), Prim("ellipse", "centerpoint")>>
        \o (IF middle_text1 # None THEN <<Prim("text", "middle_text1")>>
            ELSE << >>)
        \o (IF middle_text2 # None THEN <<Prim("text", "middle_text2")>>
            ELSE << >>)

Gauge(s, e, f, t, md, smd) ==
    [start_value |-> s, end_value |-> e, from_degree |-> f, to_degree |-> t,
     marks_distance |-> md, small_marks_distance |-> smd]

(* the gauge of gmeter, line 408 *)
GmeterGauge == Gauge(Q(-3), Q(5), Q(120), Q(420), Q(1), <<1, 4>>)

MaxEnd == 10      \* largest end_value of a gauge handed to meter
Gauges ==
    {Gauge(Q(-1), Q(1), Q(120), Q(420), Q(1), <<1, 4>>),
     Gauge(Q(-1), Q(1), Q(120), Q(420), Q(1), <<3, 4>>),
     Gauge(Q(0), Q(MaxEnd), Q(0), Q(270), Q(5), Q(1)),
     Gauge(Q(0), Q(MaxEnd), Q(0), Q(270), Q(5), Q(3)),
     Gauge(Q(2), Q(MaxEnd), Q(-45), Q(45), Q(4), Q(3)),
     Gauge(Q(MaxEnd), Q(MaxEnd), Q(0), Q(270), Q(5), Q(1))}

MaxCurrent == 12  \* the largest needle value handed to meter
Currents == {Q(n) : n \in (-4)..MaxCurrent} \cup {<<1, 2>>, <<-7, 2>>}
MiddleTexts == {None, "G-Meter"}

(* line 360 divides by end_value - start_value *)
MeterFails(g) == QSub(g.end_value, g.start_value) = Q(0)

(* the values meter computes for each gauge and needle value of the model, *)
(* computed once                                                           *)
MeterResults ==
    [g \in Gauges |->
        [current \in Currents |->
            IF MeterFails(g) THEN << >> ELSE MeterOut(g, current)]]

meter ==
    \E g \in Gauges, current \in Currents, middle_text1 \in MiddleTexts :
        LET a == [current |-> current, gauge |-> g,
                  middle_text1 |-> middle_text1, middle_text2 |-> None]
            fails == MeterFails(g)
            o == MeterResults[g][current]
        IN  /\ op' = "meter"
            /\ args' = a
            /\ out' = IF fails THEN << >> ELSE o
            /\ image' = IF fails THEN << >>
                      ELSE MeterPrims(o, middle_text1, None)
            /\ error' = IF fails THEN ZeroDivisionError ELSE NoError
            /\ UNCHANGED <<geometry, mask>>

----------------------------------------------------------------------------
(* The renderers that take an error message.  ErrorText is the primitive   *)
(* of centered_text(draw, y, error_message, ...), controller.py 149-151.   *)
ErrorText == Prim("text", "error_message")
ErrorMessages == {None, "", "No IMU"}

(* "if error_message:" is false for None and for the empty text,           *)
(* "if error_message is not None:" for None alone                          *)
Truthy(error_message) == error_message # None /\ error_message # ""
NotNone(error_message) == error_message # None

(* gmeter(), controller.py 407-420 *)
GmeterPrims(o, error_message) ==
    MeterPrims(o, "G-Meter", None)
    \o <<Prim("text", "max"), Prim("text", "maxg")>>
    \o (IF Truthy(error_message) THEN <<ErrorText>> ELSE << >>)
    \o <<Prim("text", "min"), Prim("text", "ming"), Prim("text", "Reset"),
         Prim("text", "middle")>>

GmeterCurrents == {<<-7, 2>>, Q(0), <<5, 4>>, Q(6)}

GmeterResults ==
    [current \in GmeterCurrents |-> MeterOut(GmeterGauge, current)]

gmeter ==
    \E current \in GmeterCurrents, error_message \in ErrorMessages :
        LET a == [current |-> current, maxg |-> Q(2), ming |-> Q(-1),
                  error_message |-> error_message]
            o == GmeterResults[current]
        IN  /\ op' = "gmeter"
            /\ args' = a
            /\ out' = o
            /\ image' = GmeterPrims(o, error_message)
            /\ error' = NoError
            /\ UNCHANGED <<geometry, mask>>

(* compass(), controller.py 423-466 *)
cmsize == 15
TensText == <<"0", "1", "2", "3", "4", "5", "6", "7", "8", "9", "10", "11", "12", "13", "14", "15", "16", "17", "18", "19", "20", "21", "22", "23", "24", "25", "26", "27", "28", "29", "30", "31", "32", "33", "34", "35">>

(* the slip of colouring the numbers alone, the letters left uncoloured *)
CompassMarkNoAccent(m) ==
    IF m = 0 THEN [mark |-> "N", color |-> ""]
    ELSE IF m = 90 THEN [mark |-> "E", color |-> ""]
    ELSE IF m = 180 THEN [mark |-> "S", color |-> ""]
    ELSE IF m = 270 THEN [mark |-> "W", color |-> ""]
    ELSE [mark |-> TensText[m \div 10 + 1], color |-> "white"]

(* the label of a step that is a multiple of 30, lines 446-457 *)
CompassMark(m) ==
    IF m = 0 THEN [mark |-> "N", color |-> "yellow"]
    ELSE IF m = 90 THEN [mark |-> "E", color |-> "yellow"]
    ELSE IF m = 180 THEN [mark |-> "S", color |-> "yellow"]
    ELSE IF m = 270 THEN [mark |-> "W", color |-> "yellow"]
    ELSE [mark |-> TensText[m \div 10 + 1], color |-> "white"]

(* one pass of the loop of lines 437-464: the angle whose sine and cosine  *)
(* place the tick and the label, and for a labelled step the rotation of   *)
(* the mask                                                                *)
(* the slip of turning the label by its bearing alone *)
CompassStepNoHeading(m, heading) ==
    IF m % 30 # 0
    THEN [m |-> m, angle |-> m - heading + 90, width |-> 1, label |-> FALSE,
          mark |-> "", color |-> "", rotate |-> 0,
          r_outer |-> 1, r_inner |-> cmsize]
    ELSE [m |-> m, angle |-> m - heading + 90, width |-> 3, label |-> TRUE,
          mark |-> CompassMark(m).mark, color |-> CompassMark(m).color,
          rotate |-> -m,
          r_outer |-> 1, r_inner |-> cmsize]

(* the tick runs along the radius from csize - r_outer to csize - r_inner  *)
CompassStep(m, heading) ==
    IF m % 30 # 0
    THEN [m |-> m, angle |-> m - heading + 90, width |-> 1, label |-> FALSE,
          mark |-> "", color |-> "", rotate |-> 0,
          r_outer |-> 1, r_inner |-> cmsize]
    ELSE [m |-> m, angle |-> m - heading + 90, width |-> 3, label |-> TRUE,
          mark |-> CompassMark(m).mark, color |-> CompassMark(m).color,
          rotate |-> -m + heading,
          r_outer |-> 1, r_inner |-> cmsize]

(* the slip of drawing the label into a mask that is not cleared *)
CompassStepPrimsNoClear(st) ==
    IF ~st.label THEN <<Prim("line", "tick")>>
    ELSE <<Prim("line", "long_tick"),
           Prim("mask.text", st.mark), Prim("mask.rotate", st.mark),
           Prim("paste", st.mark)>>

CompassStepPrims(st) ==
    IF ~st.label THEN <<Prim("line", "tick")>>
    ELSE <<Prim("line", "long_tick"), Prim("mask.rectangle", "clear"),
           Prim("mask.text", st.mark), Prim("mask.rotate", st.mark),
           Prim("paste", st.mark)>>

Headings == {0, 45, 90, 330, 359}

(* the 36 passes of the loop for each heading of the model, computed once *)
CompassSteps ==
    [heading \in Headings |->
        [k \in 1..36 |-> CompassStep(10 * (k - 1), heading)]]

RECURSIVE CompassLoopPrims(_, _)
CompassLoopPrims(steps, k) ==
    IF k > Len(steps) THEN << >>
    ELSE CompassStepPrims(steps[k]) \o CompassLoopPrims(steps, k + 1)

CompassLoop ==
    [heading \in Headings |-> CompassLoopPrims(CompassSteps[heading], 1)]

(* What the first n primitives do to the mask: cdraw.rectangle over the    *)
(* whole mask (458) empties it, cdraw.text (461) adds the pixels of the    *)
(* label; mask.rotate (462) returns a new image and leaves the mask as it  *)
(* is.  The effect is whether the mask was cleared and the labels drawn    *)
(* since.                                                                  *)
MaskEffect(prims, n) ==
    LET clears == {i \in 1..n : prims[i].kind = "mask.rectangle"}
        lastclear == IF clears = {} THEN 0
                     ELSE CHOOSE i \in clears : \A q \in clears : q <= i
    IN  [cleared |-> clears # {},
         drawn |-> {prims[i].tag :
                       i \in {q \in (lastclear + 1)..n :
                                 prims[q].kind = "mask.text"}}]

MaskAfter(m, effect) == (IF effect.cleared THEN {} ELSE m) \cup effect.drawn

(* the composites of a call, in order: the label pasted at line 464 and    *)
(* the effect on the mask of all that came before the mask.rotate of line  *)
(* 462 that made rotmask                                                   *)
CompassPastes(prims) ==
    LET idx == SelectSeq([i \in 1..Len(prims) |-> i],
                         LAMBDA i : prims[i].kind = "paste")
        rotated(i) == {r \in 1..(i - 1) : prims[r].kind = "mask.rotate"}
        last(i) == IF rotated(i) = {} THEN 0
                   ELSE CHOOSE r \in rotated(i) : \A q \in rotated(i) : q <= r
    IN  [j \in 1..Len(idx) |->
            [mark |-> prims[idx[j]].tag,
             rotated |-> last(idx[j]) > 0,
             effect |-> MaskEffect(prims, last(idx[j]))]]

(* both for each heading of the model, computed once *)
CompassComposites ==
    [heading \in Headings |-> CompassPastes(CompassLoop[heading])]

CompassMaskEffect ==
    [heading \in Headings |->
        MaskEffect(CompassLoop[heading], Len(CompassLoop[heading]))]

CompassOut(heading) ==
    [csize |-> sizey \div 2, steps |-> CompassSteps[heading],
     pastes |-> [j \in 1..Len(CompassComposites[heading]) |->
                   LET c == CompassComposites[heading][j]
                   IN  [mark |-> c.mark,
                        rotmask |-> IF c.rotated THEN MaskAfter(mask, c.effect)
                                    ELSE {}]]]

CompassPrims(heading, error_message) ==
    <<Prim("ellipse", "rose"), Prim("paste", "compass_aircraft"),
      Prim("line", "lubber"), Prim("text", "heading")>>
    \o CompassLoop[heading]
    \o (IF NotNone(error_message) THEN <<ErrorText>> ELSE << >>)

compass ==
    \E heading \in Headings, error_message \in ErrorMessages :
        LET a == [heading |-> heading, error_message |-> error_message]
        IN  /\ op' = "compass"
            /\ args' = a
            /\ out' = CompassOut(heading)
            /\ image' = CompassPrims(heading, error_message)
            /\ mask' = MaskAfter(mask, CompassMaskEffect[heading])
            /\ error' = NoError
            /\ UNCHANGED geometry

(* vsi(), controller.py 469-520 *)
(* the marks of the loop of lines 487-504, m = -2000 + 100 * (k - 1) *)
VsiMarkPrims(m) ==
    IF m % 500 # 0 THEN <<Prim("line", "tick")>>
    ELSE <<Prim("line", "long_tick")>>
         \o (IF m # 2000 /\ m # -2000 THEN <<Prim("text", "mark")>> ELSE << >>)
         \o (IF m = 2000 THEN <<Prim("text", "mark_middle")>> ELSE << >>)

RECURSIVE VsiLoopPrims(_)
VsiLoopPrims(m) ==
    IF m >= 2100 THEN << >> ELSE VsiMarkPrims(m) \o VsiLoopPrims(m + 100)

(* lines 509-513: the needle angle, vertical_speed * 170 / 2000 kept in    *)
(* [-170, 170]                                                             *)
VsiVertVal(vertical_speed) ==
    LET vert_val == QDiv(Q(vertical_speed * 170), Q(2000))
    IN  IF QLt(Q(170), vert_val) THEN Q(170)
        ELSE IF QLt(vert_val, Q(-170)) THEN Q(-170)
        ELSE vert_val

VsiNeedle == <<Prim("line", "needle"), Prim("line", "needle_body"),
               Prim("ellipse", "centerpoint")>>

(* the slip of returning once the error text is drawn *)
VsiPrimsErrorOnly(vertical_speed, error_message) ==
    <<Prim("arc", "scale"), Prim("text", "up"), Prim("text", "dn"),
      Prim("text", "Vert Spd"), Prim("text", "100 ft/min")>>
    \o VsiLoopPrims(-2000)
    \o (IF NotNone(error_message) THEN <<ErrorText>> ELSE VsiNeedle)

VsiPrims(vertical_speed, error_message) ==
    <<Prim("arc", "scale"), Prim("text", "up"), Prim("text", "dn"),
      Prim("text", "Vert Spd"), Prim("text", "100 ft/min")>>
    \o VsiLoopPrims(-2000)
    \o (IF NotNone(error_message) THEN <<ErrorText>> ELSE << >>)
    \o VsiNeedle

VerticalSpeeds == {-3000, -500, 0, 1500, 2500}

vsi ==
    \E vertical_speed \in VerticalSpeeds, error_message \in ErrorMessages :
        LET a == [vertical_speed |-> vertical_speed,
                  error_message |-> error_message]
        IN  /\ op' = "vsi"
            /\ args' = a
            /\ out' = [vert_val |-> VsiVertVal(vertical_speed)]
            /\ image' = VsiPrims(vertical_speed, error_message)
            /\ error' = NoError
            /\ UNCHANGED <<geometry, mask>>

(* ahrs(), controller.py 600-624, with rollmarks() 550-570 and slip()      *)
(* 587-597                                                                 *)
roll_posmarks == <<-90, -60, -30, -20, -10, 0, 10, 20, 30, 60, 90>>
pitch_posmarks == <<-30, -20, -10, 10, 20, 30>>

RollmarksPrims ==
    Repeat(Prim("line", "rollmark"), Len(roll_posmarks))
    \o <<Prim("polygon", "roll_pointer")>>

(* the slip of taking the remainder of a negative mark for non-zero *)
RollmarksOutPositiveOnly(roll) ==
    [di |-> IF ah_zerox > ah_zeroy THEN ah_zeroy ELSE ah_zerox,
     marks |-> [k \in 1..Len(roll_posmarks) |->
                  LET rm == roll_posmarks[k]
                  IN  [rm |-> rm, angle |-> rm - roll + 90,
                       length |-> IF rm >= 0 /\ rm % 30 = 0 THEN 24 ELSE 16,
                       width |-> 3]]]

(* rollmarks(), lines 551-567: each mark is a line along the radius from   *)
(* di to di - length at the angle rm - roll + 90                           *)
RollmarksOut(roll) ==
    [di |-> IF ah_zerox > ah_zeroy THEN ah_zeroy ELSE ah_zerox,
     marks |-> [k \in 1..Len(roll_posmarks) |->
                  LET rm == roll_posmarks[k]
                  IN  [rm |-> rm, angle |-> rm - roll + 90,
                       length |-> IF rm % 30 = 0 THEN 24 ELSE 16,
                       width |-> 3]]]

(* lines 590-593 *)
SlipSkid(slipskid) ==
    IF slipskid < -10 THEN -10 ELSE IF slipskid > 10 THEN 10 ELSE slipskid

SlipPrims == <<Prim("rectangle", "slip"), Prim("ellipse", "ball")>>

(* lines 588-589 and 595-597: the cleared rectangle and the box of the     *)
(* ball, (x0, y0, x1, y1); device.height is sizey                          *)
SlipOut(slipskid) ==
    LET slipsize == 10
        slipscale == 12
        sk == SlipSkid(slipskid)
    IN  [slipskid |-> sk,
         rectangle |-> <<zerox - 120, sizey - slipsize * 2,
                         zerox + 120, sizey - 1>>,
         ellipse |-> <<zerox - sk * slipscale - slipsize,
                       sizey - slipsize * 2,
                       zerox - sk * slipscale + slipsize, sizey - 1>>]

(* linepoints(), controller.py 573-584.  A float is modelled as <<w, t>>,   *)
(* the number w + t * 2^-70 with w whole: at the rolls the model evaluates *)
(* every exact value is whole and t carries what is left of the binary     *)
(* rounding of math.radians, math.sin and math.cos, to the nearest 2^-70.  *)
PITCH_SCALE == 3

(* math.sin and math.cos of math.radians(angle) as IEEE doubles *)
SinCos(angle) ==
    CASE angle = 180 -> [s |-> <<0, 144581>>, c |-> <<-1, 0>>]
      [] angle = 270 -> [s |-> <<-1, 0>>, c |-> <<0, -216871>>]
      [] angle = -90 -> [s |-> <<-1, 0>>, c |-> <<0, 72290>>]
      [] angle = -180 -> [s |-> <<0, -144581>>, c |-> <<-1, 0>>]

ExactRolls == {0, 90}

(* the largest power of two not above n, n >= 1 *)
RECURSIVE Pow2Below(_)
Pow2Below(n) == IF n < 2 THEN 1 ELSE 2 * Pow2Below(n \div 2)

(* the distance, in units of 2^-70, between the doubles next to w on the   *)
(* side t points to: 2^(e-52) for 2^e <= |w| < 2^(e+1), half of it below a *)
(* power of two                                                            *)
FloatSpacing(w, t) ==
    LET p == Pow2Below(Abs(w))
        inward == (w > 0 /\ t < 0) \/ (w < 0 /\ t > 0)
    IN  IF Abs(w) = p /\ inward THEN p * 131072 ELSE p * 262144

(* round to nearest, ties to even *)
FloatRound(w, t) ==
    IF w = 0 THEN <<0, t>>
    ELSE LET sp == FloatSpacing(w, t)
             q == t \div sp
             r == t % sp
             up == 2 * r > sp \/ (2 * r = sp /\ q % 2 = 1)
         IN  <<w, (IF up THEN q + 1 ELSE q) * sp>>

FloatAdd(a, b) == FloatRound(a[1] + b[1], a[2] + b[2])
FloatSub(a, b) == FloatRound(a[1] - b[1], a[2] - b[2])
FloatScale(n, a) == <<n * a[1], n * a[2]>>

(* the slip of giving both ends the x of the first *)
linepointsOneSided(pitch, roll, pitch_distance, length) ==
    LET s == SinCos(180 + roll).s
        c == SinCos(180 + roll).c
        dist == (-pitch + pitch_distance) * PITCH_SCALE
        move == <<FloatScale(dist, s), FloatScale(dist, c)>>
        s1 == SinCos(-90 - roll).s
        c1 == SinCos(-90 - roll).c
        p1 == <<FloatSub(<<zerox, 0>>, FloatScale(length, s1)),
                FloatAdd(<<zeroy, 0>>, FloatScale(length, c1))>>
        p2 == <<FloatSub(<<zerox, 0>>, FloatScale(length, s1)),
                FloatSub(<<zeroy, 0>>, FloatScale(length, c1))>>
    IN  [ps |-> <<FloatAdd(p1[1], move[1]), FloatAdd(p1[2], move[2])>>,
         pe |-> <<FloatAdd(p2[1], move[1]), FloatAdd(p2[2], move[2])>>]

linepoints(pitch, roll, pitch_distance, length) ==
    LET s == SinCos(180 + roll).s
        c == SinCos(180 + roll).c
        dist == (-pitch + pitch_distance) * PITCH_SCALE
        move == <<FloatScale(dist, s), FloatScale(dist, c)>>
        s1 == SinCos(-90 - roll).s
        c1 == SinCos(-90 - roll).c
        p1 == <<FloatSub(<<zerox, 0>>, FloatScale(length, s1)),
                FloatAdd(<<zeroy, 0>>, FloatScale(length, c1))>>
        p2 == <<FloatAdd(<<zerox, 0>>, FloatScale(length, s1)),
                FloatSub(<<zeroy, 0>>, FloatScale(length, c1))>>
    IN  [ps |-> <<FloatAdd(p1[1], move[1]), FloatAdd(p1[2], move[2])>>,
         pe |-> <<FloatAdd(p2[1], move[1]), FloatAdd(p2[2], move[2])>>]

(* ahrs() line 602: the horizon points h1, h2; at the other rolls the     *)
(* sines and cosines stay symbolic                                         *)
AhrsHorizon(pitch, roll) ==
    IF roll \in ExactRolls THEN linepoints(pitch, roll, 0, 200)
    ELSE [pitch |-> pitch, roll |-> roll]

AhrsPrims(error_message) ==
    <<Prim("polygon", "earth"), Prim("polygon", "sky"),
      Prim("line", "horizon")>>
    \o Repeat(Prim("line", "pitchmark"), Len(pitch_posmarks))
    \o <<Prim("line", "pointer_left"), Prim("line", "pointer_right"),
         Prim("polygon", "pointer")>>
    \o RollmarksPrims
    \o SlipPrims
    \o (IF Truthy(error_message) THEN <<ErrorText>> ELSE << >>)

Pitches == {0, 10}
Rolls == {0, 30, -45}
SlipSkids == {-20, 0, 5}

ahrs ==
    \E pitch \in Pitches, roll \in Rolls, slipskid \in SlipSkids,
       error_message \in ErrorMessages :
        LET a == [pitch |-> pitch, roll |-> roll, heading |-> 0,
                  slipskid |-> slipskid, error_message |-> error_message]
        IN  /\ op' = "ahrs"
            /\ args' = a
            /\ out' = [slip |-> SlipOut(slipskid),
                        horizon |-> AhrsHorizon(pitch, roll),
                        rollmarks |-> RollmarksOut(roll)]
            /\ image' = AhrsPrims(error_message)
            /\ error' = NoError
            /\ UNCHANGED <<geometry, mask>>

(* clear(), controller.py 174-175 *)
clearResizesFrame ==
    /\ op' = "clear"
    /\ args' = << >>
    /\ out' = [rectangle |-> <<0, 0, sizex - 1, sizey - 1>>]
    /\ image' = <<Prim("rectangle", "frame")>>
    /\ error' = NoError
    /\ sizex' = sizex - 1
    /\ UNCHANGED <<sizey, zerox, zeroy, ah_zerox, ah_zeroy, max_pixel, mask>>

clear ==
    /\ op' = "clear"
    /\ args' = << >>
    /\ out' = [rectangle |-> <<0, 0, sizex - 1, sizey - 1>>]
    /\ image' = <<Prim("rectangle", "frame")>>
    /\ error' = NoError
    /\ UNCHANGED <<geometry, mask>>

(* situation(), controller.py 256-310 *)
(* lines 284-297: the sound symbol and its colour, None when none is drawn *)
SituationSound(extsound, bt_devices, sound_active) ==
    IF ~(extsound \/ bt_devices > 0) THEN None
    ELSE IF ~sound_active THEN "red"
    ELSE IF extsound THEN (IF bt_devices > 0 THEN "blue" ELSE "orange")
    ELSE "blue"

SituationPrims(a) ==
    <<Prim("ellipse", "outer"), Prim("ellipse", "middle"),
      Prim("ellipse", "center"), Prim("text", "FL"), Prim("text", "range"),
      Prim("text", "nm"), Prim("text", "altdifference"), Prim("text", "ft"),
      Prim("text", "course")>>
    \o (IF SituationSound(a.extsound, a.bt_devices, a.sound_active) # None
        THEN <<Prim("text", "sound")>> ELSE << >>)
    \o (IF ~a.gpsconnected THEN <<Prim("text", "No GPS")>> ELSE << >>)
    \o (IF ~a.connected THEN <<Prim("text", "No Connection!")>> ELSE << >>)
    \o (IF a.co_alarmlevel > 0
        THEN <<Prim("text", "CO Alarm!"), Prim("text", "co_alarmstring")>>
        ELSE << >>)
    \o (IF a.basemode THEN <<Prim("text", "Ground mode")>> ELSE << >>)

SituationOut(a) ==
    [outer |-> <<zerox - max_pixel \div 2, 1 + zeroy - max_pixel \div 2,
                 zerox + max_pixel \div 2, zeroy + max_pixel \div 2>>,
     middle |-> <<zerox - max_pixel \div 4, zeroy - max_pixel \div 4,
                  zerox + max_pixel \div 4, zeroy + max_pixel \div 4>>,
     btcolor |-> SituationSound(a.extsound, a.bt_devices, a.sound_active)]

SoundStates == {<<FALSE, 0, FALSE>>, <<TRUE, 0, TRUE>>, <<FALSE, 1, FALSE>>}
CoAlarmLevels == {0, 1}

situation ==
    \E connected \in BOOLEAN, gpsconnected \in BOOLEAN,
       sound \in SoundStates, co_alarmlevel \in CoAlarmLevels,
       basemode \in BOOLEAN :
        LET a == [connected |-> connected, gpsconnected |-> gpsconnected,
                  extsound |-> sound[1], bt_devices |-> sound[2],
                  sound_active |-> sound[3],
                  co_alarmlevel |-> co_alarmlevel, basemode |-> basemode]
        IN  /\ op' = "situation"
            /\ args' = a
            /\ out' = SituationOut(a)
            /\ image' = SituationPrims(a)
            /\ error' = NoError
            /\ UNCHANGED <<geometry, mask>>

(* text_screen(), controller.py 627-637 *)
TextScreenPrims(subline) ==
    <<Prim("text", "headline")>>
    \o (IF subline # None THEN <<Prim("text", "subline")>> ELSE << >>)
    \o <<Prim("text", "text"), Prim("text", "left"), Prim("text", "right"),
         Prim("text", "middle")>>

Sublines == {None, "sub"}

text_screen ==
    \E subline \in Sublines :
        /\ op' = "text_screen"
        /\ args' = [subline |-> subline]
        /\ out' = [txt_starty |-> IF subline # None THEN LARGE + LARGE
                                  ELSE LARGE]
        /\ image' = TextScreenPrims(subline)
        /\ error' = NoError
        /\ UNCHANGED <<geometry, mask>>

(* next_arcposition(), controller.py 168-171 *)
(* the slip of stepping by half a turn *)
next_arcpositionHalfTurn(old_arcposition) == (old_arcposition + 180) % 360

next_arcposition(old_arcposition) == (old_arcposition + 210) % 360

(* The caller keeps the angle of a contact's label and hands it back frame *)
(* after frame: a call either starts an orbit at an angle of ArcStarts or  *)
(* continues the orbit of the call before it.  out keeps the start of the  *)
(* orbit, the number of calls made in it and the angles they returned.     *)
MaxOrbit == 13      \* longest run of calls followed in one orbit
ArcStarts == {0, 1, 29, 150, 210, 359}

next_arcposition_call ==
    \/ \E start \in ArcStarts :
          /\ op' = "next_arcposition"
          /\ args' = [old_arcposition |-> start]
          /\ out' = [arcposition |-> next_arcposition(start),
                     start |-> start, steps |-> 1,
                     visited |-> {next_arcposition(start)}]
          /\ image' = << >>
          /\ error' = NoError
          /\ UNCHANGED <<geometry, mask>>
    \/ /\ op = "next_arcposition"
       /\ out.steps < MaxOrbit
       /\ op' = "next_arcposition"
       /\ args' = [old_arcposition |-> out.arcposition]
       /\ out' = [arcposition |-> next_arcposition(out.arcposition),
                  start |-> out.start, steps |-> out.steps + 1,
                  visited |-> out.visited
                              \cup {next_arcposition(out.arcposition)}]
       /\ image' = << >>
       /\ error' = NoError
       /\ UNCHANGED <<geometry, mask>>

SpecOrbit == Init /\ [][next_arcposition_call]_vars

(* linepoints() called on its own, as ahrs calls it for the horizon, the   *)
(* earth and sky polygons and the pitch marks (602-610)                    *)
PitchDistances == {0, 30, -180}
Lengths == {20, 116, 117, 200}

linepoints_call ==
    \E pitch \in Pitches, roll \in ExactRolls,
       pitch_distance \in PitchDistances, length \in Lengths :
        LET a == [pitch |-> pitch, roll |-> roll,
                  pitch_distance |-> pitch_distance, length |-> length]
        IN  /\ op' = "linepoints"
            /\ args' = a
            /\ out' = linepoints(pitch, roll, pitch_distance, length)
            /\ image' = << >>
            /\ error' = NoError
            /\ UNCHANGED <<geometry, mask>>

SpecAttitude == Init /\ [][ahrs \/ linepoints_call]_vars

SpecInstruments == Init /\ [][gmeter \/ compass \/ vsi \/ ahrs]_vars

Next ==
    \/ bar \/ graph \/ aircraft \/ modesaircraft
    \/ meter \/ gmeter \/ compass \/ vsi \/ ahrs \/ linepoints_call
    \/ clear \/ situation \/ text_screen \/ next_arcposition_call

Spec == Init /\ [][Next]_vars

SpecGauge == Init /\ [][meter]_vars

(* the renderers that divide by the width of a caller's domain *)
SpecDomain == Init /\ [][meter \/ graph \/ bar]_vars

----------------------------------------------------------------------------
(* Properties *)

(* C1: in graph the y coordinate of every plotted sample lies in           *)
(* [ypos, ypos+ysize-1]; a sample above maxvalue is plotted at ypos and a  *)
(* sample below minvalue at ypos+ysize-1.                                  *)
GraphSampleInBox(y, d) ==
    /\ QLe(Q(out.ypos), y)
    /\ QLe(y, Q(out.ypos + out.ysize - 1))
    /\ (d > args.maxvalue => y = Q(out.ypos))
    /\ (d < args.minvalue => y = Q(out.ypos + out.ysize - 1))

GraphSamplesClamped ==
    (op = "graph" /\ error = NoError) =>
        \A k \in 1..Len(out.lines) : \A e \in 1..2 :
            GraphSampleInBox(out.lines[k][e][2], args.data[out.seen[k][e] + 1])

(* C2: in bar, for max_val > 0, the right edge of the fill lies between    *)
(* bar_start and bar_end.                                                  *)
BarFillInsideBar ==
    (op = "bar" /\ args.max_val > 0) =>
        /\ QLe(Q(bar_start), out.xval)
        /\ QLe(out.xval, Q(bar_end))

(* C3: in bar the colour is decided by the caller's val, yellow and red:   *)
(* DimGray when red = 0, else red for val >= red, DarkOrange for           *)
(* yellow <= val < red and green for val < yellow; the minval floor of the *)
(* drawn length does not change it.                                        *)
BarColourFromCallersValue ==
    op = "bar" =>
        /\ (args.red = 0 => out.color = "DimGray")
        /\ (args.red # 0 /\ args.val >= args.red => out.color = "red")
        /\ (args.red # 0 /\ args.yellow <= args.val /\ args.val < args.red
               => out.color = "DarkOrange")
        /\ (args.red # 0 /\ args.val < args.yellow => out.color = "green")

(* a bar whose value was floored up to the yellow threshold and stays green *)
BarFlooredStaysGreen ==
    /\ op = "bar"
    /\ args.val < args.minval
    /\ out.val = args.minval
    /\ args.red # 0
    /\ out.val >= args.yellow
    /\ out.color = "green"

(* C4: in modesaircraft the radius of the ring and of the label's orbit is *)
(* the input saturated to [MINIMAL_CIRCLE, MAXIMAL_CIRCLE].                *)
Saturated(radius) ==
    IF radius < 18 THEN 18 ELSE IF radius > 100 THEN 100 ELSE radius

ModesRadiusSaturated ==
    op = "modesaircraft" =>
        LET r == Saturated(args.radius)
        IN  /\ out.ellipse = <<zerox - r, zeroy - r, zerox + r, zeroy + r>>
            /\ out.arm_length = r
            /\ out.arctext = posn(args.arcposition, r)

ModesRadiusWitness ==
    /\ op = "modesaircraft"
    /\ args.radius > MAXIMAL_CIRCLE
    /\ out.arm_length = MAXIMAL_CIRCLE
    /\ out.ellipse[3] - out.ellipse[1] = 2 * MAXIMAL_CIRCLE

(* C5: in aircraft, with offset the glyph offset 4 * AIRCRAFT_SIZE, the    *)
(* label anchor is x - offset - labelWidth whenever                        *)
(* x + labelWidth + offset > sizex, and right of the glyph otherwise.      *)
AircraftLabelFlip ==
    op = "aircraft" =>
        LET offset == Q(4 * AIRCRAFT_SIZE)
            over   == QLt(Q(sizex), QAdd(QAdd(out.x, Q(out.tsize)), offset))
        IN  /\ (over => out.tposition[1] = QSub(QSub(out.x, offset), Q(out.tsize)))
            /\ (~over => QLt(out.x, out.tposition[1]))

(* C6: in aircraft a label placed to the right of the glyph ends at or     *)
(* before the right edge of the screen.                                    *)
AircraftRightLabelOnScreen ==
    (op = "aircraft" /\ QLt(out.x, out.tposition[1])) =>
        /\ out.rectangle[3] = QAdd(out.tposition[1], Q(out.tsize))
        /\ QLe(out.rectangle[3], Q(sizex))

(* C7: in meter, for start_value < end_value and from_degree <= to_degree, *)
(* the needle angle is from_degree for current < start_value, to_degree    *)
(* for current > end_value, lies in [from_degree, to_degree], and does not *)
(* decrease from one call to the next on the same gauge when current does  *)
(* not decrease.                                                           *)
MeterOrdered(g) ==
    QLt(g.start_value, g.end_value) /\ QLe(g.from_degree, g.to_degree)

NeedleClamped ==
    (op = "meter" /\ MeterOrdered(args.gauge)) =>
        LET g == args.gauge
        IN  /\ (QLt(args.current, g.start_value) => out.angle = g.from_degree)
            /\ (QLt(g.end_value, args.current) => out.angle = g.to_degree)
            /\ QLe(g.from_degree, out.angle)
            /\ QLe(out.angle, g.to_degree)

NeedleStep ==
    /\ NeedleClamped'
    /\ (/\ op = "meter" /\ op' = "meter"
        /\ args'.gauge = args.gauge
        /\ MeterOrdered(args.gauge)
        /\ QLe(args.current, args'.current)
        => QLe(out.angle, out'.angle))

NeedleMonotoneClamped == [][NeedleStep]_vars

NeedleAtEndWitness ==
    /\ op = "meter"
    /\ MeterOrdered(args.gauge)
    /\ QLt(args.gauge.end_value, args.current)
    /\ out.angle = args.gauge.to_degree
    /\ QLt(args.gauge.from_degree, out.angle)

(* C8 as stated: in meter, for start_value < end_value and                 *)
(* small_marks_distance > 0, the minor loop draws a tick for end_value, at *)
(* to_degree.                                                              *)
MeterLastSmall == out.small_marks[Len(out.small_marks)]

MeterProper ==
    /\ op = "meter"
    /\ error = NoError
    /\ QLt(args.gauge.start_value, args.gauge.end_value)
    /\ QLt(Q(0), args.gauge.small_marks_distance)

MinorTickAtEnd ==
    MeterProper =>
        /\ MeterLastSmall.m = args.gauge.end_value
        /\ MeterLastSmall.angle = args.gauge.to_degree

(* C8 amended: the last minor tick is the largest start_value + k * step   *)
(* that does not exceed end_value; it is the tick of end_value, at         *)
(* to_degree, exactly when the step divides end_value - start_value.       *)
Divides(step, width) == QDiv(width, step)[2] = 1

MinorTickAtEndIffDivides ==
    MeterProper =>
        LET g     == args.gauge
            width == QSub(g.end_value, g.start_value)
            k     == QFloor(QDiv(width, g.small_marks_distance))
        IN  /\ Len(out.small_marks) = k + 1
            /\ MeterLastSmall.m =
                   QAdd(g.start_value, QMul(Q(k), g.small_marks_distance))
            /\ (MeterLastSmall.m = g.end_value
                   <=> Divides(g.small_marks_distance, width))
            /\ (MeterLastSmall.m = g.end_value
                   => MeterLastSmall.angle = g.to_degree)

MinorTickWitness ==
    /\ MeterProper
    /\ ~Divides(args.gauge.small_marks_distance,
                QSub(args.gauge.end_value, args.gauge.start_value))
    /\ QLt(MeterLastSmall.m, args.gauge.end_value)

(* C9: a degenerate domain makes no renderer fail: meter with              *)
(* start_value = end_value, graph with minvalue = maxvalue and bar with    *)
(* max_val = 0 return without a division by zero.                          *)
DegenerateDomain ==
    \/ op = "meter" /\ args.gauge.start_value = args.gauge.end_value
    \/ op = "graph" /\ args.minvalue = args.maxvalue
    \/ op = "bar" /\ args.max_val = 0

DegenerateDomainNeverFails == DegenerateDomain => error = NoError

(* C10: for ahrs, compass, vsi and gmeter, two calls with the same         *)
(* telemetry, one without and one with an error message, issue the same    *)
(* instrument primitives in the same order and compute the same values;    *)
(* the call with a text issues one primitive more, the error text.         *)
ErrorRenderers == {"ahrs", "compass", "vsi", "gmeter"}

Instrument(prims) == SelectSeq(prims, LAMBDA p : p # ErrorText)

Telemetry(a) == [a EXCEPT !.error_message = None]

ErrorMessageStep ==
    (/\ op \in ErrorRenderers /\ op' = op
     /\ Telemetry(args') = Telemetry(args)
     /\ args.error_message = None
     /\ args'.error_message # None)
    => /\ Instrument(image') = image
       /\ out' = out
       /\ Len(image') <= Len(image) + 1
       /\ (args'.error_message # "" => Len(image') = Len(image) + 1)

ErrorMessageOnlyAddsText == [][ErrorMessageStep]_vars

(* a vsi drawn with an error text whose needle and centre are still drawn *)
ErrorMessageWitness ==
    /\ op = "vsi"
    /\ args.error_message = "No IMU"
    /\ \E k \in 1..Len(image) : image[k] = ErrorText
    /\ image[Len(image)] = Prim("ellipse", "centerpoint")

(* C11: in ahrs, compass, vsi and gmeter the text of the error message is  *)
(* drawn on top: once it is drawn, the call issues no other primitive.     *)
ErrorTextDrawnLast ==
    (/\ op \in ErrorRenderers
     /\ \E k \in 1..Len(image) : image[k] = ErrorText)
    => image[Len(image)] = ErrorText

(* C12: one compass call handles the 36 steps 0, 10, ..., 350.  A step     *)
(* that is not a multiple of 30 gets one tick and no label; each of the 12 *)
(* multiples of 30 gets one tick and one label, N/E/S/W in yellow at       *)
(* 0/90/180/270 and otherwise the bearing divided by ten in white.         *)
Cardinal == [m \in {0, 90, 180, 270} |->
                IF m = 0 THEN "N" ELSE IF m = 90 THEN "E"
                ELSE IF m = 180 THEN "S" ELSE "W"]

CompassLabels == <<"N", "3", "6", "E", "12", "15", "S", "21", "24", "W",
                   "30", "33">>

TickLength(st) == st.r_inner - st.r_outer

CompassStepsAndLabels ==
    /\ Len(out.steps) = 36
    /\ \A k \in 1..36 :
        LET st == out.steps[k]
        IN  /\ st.m = 10 * (k - 1)
            /\ st.label <=> st.m \in {0, 30, 60, 90, 120, 150, 180, 210,
                                       240, 270, 300, 330}
            /\ st.label /\ st.m \in DOMAIN Cardinal
                  => st.mark = Cardinal[st.m] /\ st.color = "yellow"
            /\ st.label /\ st.m \notin DOMAIN Cardinal
                  => st.mark = CompassLabels[st.m \div 30 + 1]
                     /\ st.color = "white"
    /\ Len(SelectSeq(image, LAMBDA p : p = Prim("line", "tick"))) = 24
    /\ Len(SelectSeq(image, LAMBDA p : p = Prim("line", "long_tick"))) = 12
    /\ [k \in 1..12 |->
           SelectSeq(image, LAMBDA p : p.kind = "paste"
                                       /\ p.tag # "compass_aircraft")[k].tag]
       = CompassLabels

(* C12 as stated: a labelled step gets the long tick, every other step the *)
(* short one, so the tick of a labelled step is the longer of the two      *)
CompassLongAndShortTicks ==
    op = "compass" =>
        /\ CompassStepsAndLabels
        /\ \A j, k \in 1..36 :
              out.steps[j].label /\ ~out.steps[k].label
                 => /\ TickLength(out.steps[j]) > TickLength(out.steps[k])

(* C12 as the code has it: steps and labels as above; the two ticks span   *)
(* the same radii, cmsize - 1 long, and differ in line width, 3 for a      *)
(* labelled step and 1 otherwise                                           *)
CompassThickAndThinTicks ==
    op = "compass" =>
        /\ CompassStepsAndLabels
        /\ \A k \in 1..36 :
              /\ TickLength(out.steps[k]) = 14
              /\ out.steps[k].width = IF out.steps[k].label THEN 3 ELSE 1

CompassLabelsWitness ==
    /\ op = "compass"
    /\ args.heading = 45
    /\ out.steps[13].mark = "12" /\ out.steps[13].width = 3
    /\ out.steps[14].mark = "" /\ out.steps[14].width = 1
    /\ \E k \in 1..Len(image) : image[k] = Prim("paste", "33")

(* C13: the placement of a compass label depends on (step - heading) mod   *)
(* 360 alone.  The label of bearing m at heading h is anchored at angle    *)
(* m - h + 90 and its mask is rotated by h - m; up to full turns these are *)
(* the angle and the rotation of bearing (m - h) mod 360 in a call at      *)
(* heading 0.  At heading 0 the label of bearing 0 is at angle 90, not     *)
(* rotated; at heading 90 it is turned by -90 clockwise (Image.rotate      *)
(* counts counter-clockwise) and anchored where bearing 270 is at heading  *)
(* 0.                                                                      *)
FullTurns(d) == d % 360 = 0

Clockwise(rotate) == -rotate

CompassPlacementStep ==
    /\ op' = "compass" =>
          \A k \in 1..36 :
              LET st == out'.steps[k]
              IN  st.label => /\ st.angle = st.m - args'.heading + 90
                              /\ st.rotate = args'.heading - st.m
    /\ (op' = "compass" /\ args'.heading = 0) =>
          /\ out'.steps[1].angle = 90
          /\ out'.steps[1].rotate = 0
    /\ (op = "compass" /\ op' = "compass" /\ args'.heading = 0) =>
          \A k \in 1..36 :
              LET st == out.steps[k]
                  b == (st.m - args.heading) % 360
              IN  (st.label /\ b % 10 = 0) =>
                      LET ref == out'.steps[b \div 10 + 1]
                      IN  /\ ref.m = b
                          /\ FullTurns(st.angle - ref.angle)
                          /\ ref.label => FullTurns(st.rotate - ref.rotate)
    /\ (op = "compass" /\ args.heading = 90
        /\ op' = "compass" /\ args'.heading = 0) =>
          /\ Clockwise(out.steps[1].rotate) = -90
          /\ out'.steps[28].m = 270
          /\ FullTurns(out.steps[1].angle - out'.steps[28].angle)
          /\ FullTurns(out.steps[1].rotate - out'.steps[28].rotate)

CompassPlacementByRelativeBearing == [][CompassPlacementStep]_vars

(* north at heading 90: at angle 0, where west is at heading 0 *)
CompassPlacementWitness ==
    /\ op = "compass"
    /\ args.heading = 90
    /\ out.steps[1].mark = "N"
    /\ out.steps[1].angle = 0
    /\ out.steps[1].rotate = 90

(* C14: in slip, for every slipskid the box of the ball lies inside the    *)
(* rectangle slip clears for it, x in [zerox - 120, zerox + 120] and y in  *)
(* [height - 20, height - 1], and so inside the screen.                    *)
SlipBallInsideRectangle ==
    op = "ahrs" =>
        LET rectangle == out.slip.rectangle
            ellipse == out.slip.ellipse
        IN  /\ rectangle = <<zerox - 120, sizey - 20, zerox + 120, sizey - 1>>
            /\ rectangle[1] <= ellipse[1] /\ ellipse[3] <= rectangle[3]
            /\ rectangle[2] <= ellipse[2] /\ ellipse[4] <= rectangle[4]
            /\ 0 <= ellipse[1] /\ ellipse[3] <= sizex - 1

(* C15: at pitch 0 and roll 0 the end points of linepoints(pitch, roll, 0, *)
(* length) are symmetric about the screen centre: y1 = y2 = zeroy and      *)
(* x1 + x2 = 2 * zerox, for every length.  The case is a linepoints call   *)
(* with these arguments, or the horizon of ahrs (length 200).              *)
LevelCall ==
    \/ /\ op = "linepoints"
       /\ args.pitch = 0 /\ args.roll = 0 /\ args.pitch_distance = 0
    \/ /\ op = "ahrs"
       /\ args.pitch = 0 /\ args.roll = 0

LevelPoints == IF op = "ahrs" THEN out.horizon ELSE out

LevelLength == IF op = "ahrs" THEN 200 ELSE args.length

(* C15 as stated: y1 = y2 = zeroy and x1 + x2 = 2 * zerox *)
HorizonLevelAndCentred ==
    LevelCall =>
        /\ LevelPoints.ps[2] = <<zeroy, 0>>
        /\ LevelPoints.pe[2] = <<zeroy, 0>>
        /\ FloatAdd(LevelPoints.ps[1], LevelPoints.pe[1]) = <<2 * zerox, 0>>

(* C15 as the code has it: x1 + x2 = 2 * zerox and y1 + y2 = 2 * zeroy     *)
(* exactly; y carries length * cos(radians(-90)), which is 6.1e-17 *       *)
(* length and not 0, so y1 and y2 are zeroy for a length up to 116 and the *)
(* doubles next to zeroy, above and below, from 117 on                     *)
HorizonLevelUpToRounding ==
    LevelCall =>
        LET y1 == LevelPoints.ps[2]
            y2 == LevelPoints.pe[2]
        IN  /\ FloatAdd(LevelPoints.ps[1], LevelPoints.pe[1])
                  = <<2 * zerox, 0>>
            /\ LevelPoints.ps[1] = <<zerox + LevelLength, 0>>
            /\ y1[1] = zeroy /\ y2[1] = zeroy
            /\ FloatAdd(y1, y2) = <<2 * zeroy, 0>>
            /\ LevelLength <= 116 => y1[2] = 0 /\ y2[2] = 0
            /\ LevelLength >= 117 =>
                  /\ y1[2] = FloatSpacing(zeroy, 1)
                  /\ y2[2] = -FloatSpacing(zeroy, -1)

HorizonRoundingWitness ==
    /\ op = "linepoints"
    /\ args.pitch = 0 /\ args.roll = 0 /\ args.pitch_distance = 0
    /\ args.length = 200
    /\ out.ps = <<(<<zerox + 200, 0>>), (<<zeroy, 16777216>>)>>
    /\ out.pe = <<(<<zerox - 200, 0>>), (<<zeroy, -16777216>>)>>

(* C16: once init has run, no renderer call changes the screen geometry    *)
(* sizex, sizey, zerox, zeroy, ah_zerox, ah_zeroy, max_pixel; besides the  *)
(* frame, the one module-level object a renderer changes is the label mask *)
(* of the compass.                                                         *)
RendererStep ==
    /\ geometry' = geometry
    /\ zerox' * 2 = sizex' /\ zeroy' * 2 = sizey' /\ max_pixel' = sizey'
    /\ mask' # mask => op' = "compass"

GeometryReadOnly == [][RendererStep]_vars

(* a frame drawn after the compass has used the mask: geometry as init     *)
(* left it, the mask as the compass left it                                *)
GeometryWitness ==
    /\ op = "clear"
    /\ mask # {}
    /\ out.rectangle = <<0, 0, 319, 239>>
    /\ zerox = 160 /\ zeroy = 120

(* C17: in compass, for every labelled step the operations on the mask     *)
(* come in the order clear the whole mask, draw the label upright, rotate, *)
(* composite; so at each composite the mask holds the pixels of the        *)
(* current label alone, none of the label before it nor of an earlier      *)
(* compass call.                                                           *)
MaskOrderAt(i) ==
    /\ i > 3
    /\ image[i - 3] = Prim("mask.rectangle", "clear")
    /\ image[i - 2] = Prim("mask.text", image[i].tag)
    /\ image[i - 1] = Prim("mask.rotate", image[i].tag)

CompassMaskFresh ==
    op = "compass" =>
        /\ \A i \in 1..Len(image) :
              (image[i].kind = "paste" /\ image[i].tag # "compass_aircraft")
                 => MaskOrderAt(i)
        /\ \A i \in 1..Len(image) :
              image[i].kind \in {"mask.rectangle", "mask.text", "mask.rotate"}
                 => \E j \in i..(i + 3) :
                        /\ j <= Len(image)
                        /\ image[j].kind = "paste"
                        /\ MaskOrderAt(j)
        /\ Len(out.pastes) = 12
        /\ \A j \in 1..12 : out.pastes[j].rotmask = {out.pastes[j].mark}
        /\ mask = {out.pastes[12].mark}

(* a compass call that composited N and then 3, each alone, and left the   *)
(* last label in the mask for the next call to find                        *)
CompassMaskWitness ==
    /\ op = "compass"
    /\ out.pastes[1] = [mark |-> "N", rotmask |-> {"N"}]
    /\ out.pastes[2] = [mark |-> "3", rotmask |-> {"3"}]
    /\ mask = {"33"}

(* C18: in rollmarks, for every mark rm of (-90, -60, -30, -20, -10, 0,    *)
(* 10, 20, 30, 60, 90) and every roll, the tick is 24 long when rm is a    *)
(* multiple of 30, negative ones included, and 16 long otherwise; the      *)
(* length is a function of rm, not of roll.                                *)
LongRollmarks == {-90, -60, -30, 0, 30, 60, 90}

RollmarkLengths(o) ==
    /\ [k \in 1..Len(o.rollmarks.marks) |-> o.rollmarks.marks[k].rm]
          = <<-90, -60, -30, -20, -10, 0, 10, 20, 30, 60, 90>>
    /\ \A k \in 1..Len(o.rollmarks.marks) :
          LET mk == o.rollmarks.marks[k]
          IN  mk.length = IF mk.rm \in LongRollmarks THEN 24 ELSE 16

RollmarkStep ==
    /\ op' = "ahrs" => RollmarkLengths(out')
    /\ (op = "ahrs" /\ op' = "ahrs") =>
          \A k \in 1..Len(out.rollmarks.marks) :
              /\ out'.rollmarks.marks[k].rm = out.rollmarks.marks[k].rm
              /\ out'.rollmarks.marks[k].length
                    = out.rollmarks.marks[k].length

RollmarkLengthByMark == [][RollmarkStep]_vars

RollmarkWitness ==
    /\ op = "ahrs"
    /\ args.roll = 30
    /\ out.rollmarks.marks[2].rm = -60
    /\ out.rollmarks.marks[2].length = 24
    /\ out.rollmarks.marks[4].rm = -20
    /\ out.rollmarks.marks[4].length = 16

(* C19: in graph the distance between two time marks, offset =             *)
(* floor((xsize - 1) / no_of_time), is at least the width ts of one time   *)
(* label, for every plot width xsize and every ts > 0.                     *)
GraphTimeLabelsApart ==
    (op = "graph" /\ error = NoError /\ args.tts > 0)
        => out.offset >= args.tts

(* C20: in aircraft and in modesaircraft the black rectangle of the        *)
(* altitude label is drawn before the text of the label, with no draw call *)
(* between the two, at the anchor of the text and as wide as the measured  *)
(* text and LARGE high.                                                    *)
LabelBoxBehindText ==
    op \in {"aircraft", "modesaircraft"} =>
        /\ \E k \in 1..(Len(image) - 1) :
              /\ image[k] = Prim("rectangle", "label")
              /\ image[k + 1] = Prim("text", "label")
              /\ \A j \in 1..Len(image) :
                    /\ image[j] = Prim("rectangle", "label") => j = k
                    /\ image[j] = Prim("text", "label") => j = k + 1
        /\ out.rectangle[1] = out.tposition[1]
        /\ out.rectangle[2] = out.tposition[2]
        /\ QSub(out.rectangle[3], out.rectangle[1]) = Q(args.tsize)
        /\ QSub(out.rectangle[4], out.rectangle[2]) = Q(25)

(* a contact near the right edge, its label moved to the left, and a       *)
(* Mode-S ring with a tail text: both with the box right before the text   *)
LabelBoxWitness ==
    \/ /\ op = "aircraft"
       /\ out.flip
       /\ image[3] = Prim("rectangle", "label")
       /\ image[4] = Prim("text", "label")
    \/ /\ op = "modesaircraft"
       /\ args.tail # None
       /\ image[2] = Prim("rectangle", "label")
       /\ image[3] = Prim("text", "label")

(* C21: iterating next_arcposition from an integer start angle a in        *)
(* [0, 360) stays in [0, 360); two consecutive positions differ, by 210    *)
(* modulo 360; the sequence is back at a for the first time after exactly  *)
(* 12 steps, and the 12 angles it has visited by then are distinct and 30  *)
(* degrees apart.                                                          *)
OrbitOf(a) == {(a + 30 * k) % 360 : k \in 0..11}

ArcOrbit ==
    op = "next_arcposition" =>
        /\ args.old_arcposition \in 0..359
        /\ out.arcposition \in 0..359
        /\ out.arcposition # args.old_arcposition
        /\ (out.arcposition - args.old_arcposition) % 360 = 210
        /\ out.arcposition = out.start <=> out.steps % 12 = 0
        /\ Cardinality(out.visited)
              = IF out.steps < 12 THEN out.steps ELSE 12
        /\ out.visited \subseteq OrbitOf(out.start)
        /\ out.steps >= 12 => out.visited = OrbitOf(out.start)

(* the twelfth call of an orbit that began at 150 *)
ArcOrbitWitness ==
    /\ op = "next_arcposition"
    /\ out.start = 150
    /\ out.steps = 12
    /\ out.arcposition = 150
    /\ Cardinality(out.visited) = 12

(* C22: in meter, for every gauge with start_value <= end_value,           *)
(* marks_distance > 0 and small_marks_distance > 0, both tick loops        *)
(* terminate: the loop variable strictly increases, the minor loop draws   *)
(* floor((end_value - start_value) / small_marks_distance) + 1 ticks and   *)
(* the major loop floor((end_value - start_value) / marks_distance) + 1    *)
(* labelled ticks, the first always at start_value.                        *)
TickLoopRuns(marks, g, step) ==
    /\ Len(marks) = QFloor(QDiv(QSub(g.end_value, g.start_value), step)) + 1
    /\ marks[1].m = g.start_value
    /\ \A i \in 1..(Len(marks) - 1) : QLt(marks[i].m, marks[i + 1].m)

TickLoopsCase ==
    /\ op = "meter"
    /\ QLe(args.gauge.start_value, args.gauge.end_value)
    /\ QLt(Q(0), args.gauge.marks_distance)
    /\ QLt(Q(0), args.gauge.small_marks_distance)

TickLoopsTerminate ==
    TickLoopsCase =>
        /\ error = NoError
        /\ TickLoopRuns(out.small_marks, args.gauge,
                        args.gauge.small_marks_distance)
        /\ TickLoopRuns(out.marks, args.gauge, args.gauge.marks_distance)

====
